---------------------------- MODULE Spec2Model ----------------------------
(***************************************************************************)
(* Model of the report parsing and verification logic of Appp_23.py:       *)
(* intelligent_parser (the cascade of line patterns and the keyword to     *)
(* standard lookup), parse_report (text and tabular paths) and the         *)
(* "Test Report Verification" page, which classifies the parsed records    *)
(* and counts verified reports in the session state; and the other pages   *)
(* of the application with the session state they share.                   *)
(*                                                                         *)
(* Python strings are sequences of one-character strings, so that strip,   *)
(* lower, upper, "in", split and the regular expressions are computed      *)
(* character by character.  A Python dict is a function from keys (strings)*)
(* to values; a Python list is a sequence.                                 *)
(***************************************************************************)
EXTENDS Integers, Sequences, FiniteSets, TLC

(***************************************************************************)
(* Bounds of the explored inputs.                                          *)
(***************************************************************************)
\* a single-line text is a concatenation of at most MaxParts parts
MaxParts == 3
\* a multi-line text has at most MaxLines lines
MaxLines == 2
\* a tabular file has at most MaxRows data rows
MaxRows == 1
\* the page is run while reports_verified is below MaxReports
MaxReports == 2
\* a PDF file has at most MaxPages pages
MaxPages == 2
\* requirements are generated while requirements_generated stays within
\* MaxRequirements
MaxRequirements == 2
\* components are added while component_db has fewer than MaxComponents rows
MaxComponents == 1

(***************************************************************************)
(* Strings.                                                                *)
(***************************************************************************)
\* the string literal s as a sequence of characters
Chars(s) == [i \in 1..Len(s) |-> SubSeq(s, i, i)]

Range(s) == {s[i] : i \in DOMAIN s}

\* Body of the value v: a local name for a value that is computed once
With(v, Body(_)) == Body(v)

Min(S) == CHOOSE x \in S : \A y \in S : x <= y

Max2(a, b) == IF a >= b THEN a ELSE b

Min2(a, b) == IF a <= b THEN a ELSE b

UPPER == Chars("ABCDEFGHIJKLMNOPQRSTUVWXYZ")

LOWER == Chars("abcdefghijklmnopqrstuvwxyz")

\* the characters str.strip() removes and \s matches
WHITESPACE == {" ", "\t", "\n", "\r"}

\* \d
DIGITS == {"0", "1", "2", "3", "4", "5", "6", "7", "8", "9"}

\* [A-Z]
UPPERCLASS == Range(UPPER)

\* [A-Z_]
NAMECLASS == UPPERCLASS \cup {"_"}

IsSpace(c) == c \in WHITESPACE

CharLower(c) ==
    IF c \in UPPERCLASS THEN LOWER[CHOOSE i \in DOMAIN UPPER : UPPER[i] = c] ELSE c

CharUpper(c) ==
    IF c \in Range(LOWER) THEN UPPER[CHOOSE i \in DOMAIN LOWER : LOWER[i] = c] ELSE c

\* str.lower()
lower(s) == [i \in 1..Len(s) |-> CharLower(s[i])]

\* str.upper()
upper(s) == [i \in 1..Len(s) |-> CharUpper(s[i])]

\* the end of the longest run of characters of class that starts at i:
\* the least k >= i with k past the end of s or s[k] outside class
SpanEnd(s, i, class) ==
    CHOOSE k \in i..(Len(s) + 1) :
        /\ (k = Len(s) + 1 \/ s[k] \notin class)
        /\ \A m \in i..(k - 1) : s[m] \in class

\* the start of the longest run of whitespace that ends just before j
SpanStart(s, j) ==
    CHOOSE i \in 1..j :
        /\ (i = 1 \/ ~IsSpace(s[i - 1]))
        /\ \A m \in i..(j - 1) : IsSpace(s[m])

\* str.strip()
strip(s) ==
    With(SpanEnd(s, 1, WHITESPACE), LAMBDA first :
        IF first > Len(s) THEN << >>
        ELSE SubSeq(s, first,
                    CHOOSE k \in first..Len(s) :
                        /\ ~IsSpace(s[k])
                        /\ \A m \in (k + 1)..Len(s) : IsSpace(s[m])))

\* p in s
contains(s, p) ==
    \E i \in 1..(Len(s) - Len(p) + 1) : SubSeq(s, i, i + Len(p) - 1) = p

\* s.replace(old, new) for single characters
replace(s, old, new) == [i \in 1..Len(s) |-> IF s[i] = old THEN new ELSE s[i]]

\* text.split('\n')
RECURSIVE split(_)
split(text) ==
    IF "\n" \notin Range(text) THEN <<text>>
    ELSE LET k == Min({i \in DOMAIN text : text[i] = "\n"})
         IN  <<SubSeq(text, 1, k - 1)>> \o split(SubSeq(text, k + 1, Len(text)))

\* the literal p occurs in s at position i
StartsAt(s, p, i) ==
    /\ i >= 1
    /\ i + Len(p) - 1 <= Len(s)
    /\ SubSeq(s, i, i + Len(p) - 1) = p

\* the same under re.I
StartsAtI(s, p, i) == StartsAt(lower(s), lower(p), i)

(***************************************************************************)
(* Knowledge base.                                                         *)
(***************************************************************************)
\* the dict in insertion order, which is the order .items() iterates in
KEYWORD_TO_STANDARD_MAP ==
    << <<Chars("gps"), Chars("NMEA 0183")>>,
       <<Chars("gnss"), Chars("3GPP")>>,
       <<Chars("bluetooth"), Chars("Bluetooth Core Specification")>>,
       <<Chars("wifi"), Chars("IEEE 802.11")>>,
       <<Chars("lte"), Chars("3GPP LTE")>>,
       <<Chars("can"), Chars("ISO 11898")>>,
       <<Chars("sensor"), Chars("AEC-Q104")>>,
       <<Chars("ip rating"), Chars("IEC 60529")>>,
       <<Chars("short circuit"), Chars("AIS-156 / IEC 62133")>>,
       <<Chars("overcharge"), Chars("AIS-156")>>,
       <<Chars("vibration"), Chars("IEC 60068-2-6")>> >>

(***************************************************************************)
(* Test records: dicts with string keys.                                   *)
(***************************************************************************)
K_TestName == Chars("TestName")

K_Result == Chars("Result")

K_Actual == Chars("Actual")

K_Standard == Chars("Standard")

NA == Chars("N/A")

PASS == Chars("PASS")

FAIL == Chars("FAIL")

INFO == Chars("INFO")

\* the dict literal of line 237 with the given values
TestData(name, result, actual, standard) ==
    (K_TestName :> name) @@ (K_Result :> result) @@ (K_Actual :> actual)
        @@ (K_Standard :> standard)

\* test_data = {"TestName": "N/A", "Result": "N/A", "Actual": "N/A", "Standard": "N/A"}
test_data_default == TestData(NA, NA, NA, NA)

\* dict.update
update(d, e) == e @@ d

\* dict.get(key, default)
get(d, key, default) == IF key \in DOMAIN d THEN d[key] ELSE default

(***************************************************************************)
(* The five line patterns.  re.match anchors at the start and each pattern *)
(* ends in $, so a pattern matches the whole line.  A match is the tuple   *)
(* of its groups, NoMatch otherwise.  Lines hold no newline (they come     *)
(* from split), so "." matches every character of a line.                  *)
(***************************************************************************)
NoMatch == << >>

ARROW == Chars("-->")

\* (Passed|Failed|Success) under re.I
WORDS0 == {Chars("passed"), Chars("failed"), Chars("success")}

\* (success|failure|passed|failed) under re.I
WORDS3 == {Chars("success"), Chars("failure"), Chars("passed"), Chars("failed")}

\* (Failed|Passed) under re.I
WORDS4 == {Chars("failed"), Chars("passed")}

\* the result word of words that occurs in line at position k (re.I)
WordAt(line, words, k) == CHOOSE w \in words : StartsAtI(line, w, k)

\* patterns[0] = ^(.*?)\s*-->\s*(Passed|Failed|Success)\s*-->\s*(.+)$
\* from position m on: the second arrow and at least one more character
Tail0(line, m) == StartsAt(line, ARROW, m) /\ m + 3 <= Len(line)

\* from position k on: a result word, whitespace and Tail0
Rest0(line, k) ==
    \E w \in WORDS0 :
        /\ StartsAtI(line, w, k)
        /\ Tail0(line, SpanEnd(line, k + Len(w), WHITESPACE))

\* the positions j of an arrow after which the rest of the pattern matches
Arrows0(line) ==
    {j \in 1..Len(line) :
        /\ StartsAt(line, ARROW, j)
        /\ Rest0(line, SpanEnd(line, j + 3, WHITESPACE))}

\* group 1 is lazy: it ends at the first arrow of Arrows0, before the
\* whitespace that \s* takes; (.+) takes the rest up to the end, after the
\* whitespace \s* takes (which leaves it at least one character)
Match0(line) ==
    With(Arrows0(line), LAMBDA arrows :
        IF arrows = {} THEN NoMatch
        ELSE
        With(Min(arrows), LAMBDA j :
        With(SpanEnd(line, j + 3, WHITESPACE), LAMBDA k :
        With(WordAt(line, WORDS0, k), LAMBDA w :
        With(SpanEnd(line, k + Len(w), WHITESPACE), LAMBDA m :
            << SubSeq(line, 1, SpanStart(line, j) - 1),
               SubSeq(line, k, k + Len(w) - 1),
               SubSeq(line, Min2(SpanEnd(line, m + 3, WHITESPACE), Len(line)),
                      Len(line)) >>)))))

\* patterns[1] = ^(.*?)\s*-->\s*(.+)$
Arrows1(line) ==
    {j \in 1..Len(line) : StartsAt(line, ARROW, j) /\ j + 3 <= Len(line)}

Match1(line) ==
    With(Arrows1(line), LAMBDA arrows :
        IF arrows = {} THEN NoMatch
        ELSE
        With(Min(arrows), LAMBDA j :
            << SubSeq(line, 1, SpanStart(line, j) - 1),
               SubSeq(line, Min2(SpanEnd(line, j + 3, WHITESPACE), Len(line)),
                      Len(line)) >>))

\* patterns[2] = ^\d+:\s*([A-Z_]+):\s*"([A-Z]+)"$   (no re.I)
\* d: the end of \d+; n, e: the start and end of [A-Z_]+; q: the opening
\* quote; r: the end of [A-Z]+, the closing quote, which ends the line
Match2(line) ==
    With(SpanEnd(line, 1, DIGITS), LAMBDA d :
        IF ~(d > 1 /\ StartsAt(line, <<":">>, d)) THEN NoMatch
        ELSE
        With(SpanEnd(line, d + 1, WHITESPACE), LAMBDA n :
        With(SpanEnd(line, n, NAMECLASS), LAMBDA e :
            IF ~(e > n /\ StartsAt(line, <<":">>, e)) THEN NoMatch
            ELSE
            With(SpanEnd(line, e + 1, WHITESPACE), LAMBDA q :
                IF ~StartsAt(line, <<"\"">>, q) THEN NoMatch
                ELSE
                With(SpanEnd(line, q + 1, UPPERCLASS), LAMBDA r :
                    IF r > q + 1 /\ StartsAt(line, <<"\"">>, r) /\ r = Len(line)
                    THEN << SubSeq(line, n, e - 1), SubSeq(line, q + 1, r - 1) >>
                    ELSE NoMatch)))))

\* patterns[3] = ^(.+?)\s+is\s+(success|failure|passed|failed)$
\* from position q on: a result word that ends the line
Rest3(line, q) ==
    \E w \in WORDS3 : StartsAtI(line, w, q) /\ q + Len(w) - 1 = Len(line)

\* after the "is" at p: whitespace up to q > p + 2, then Rest3
After3(line, p, q) == q > p + 2 /\ Rest3(line, q)

\* the positions p of an "is" with whitespace before it, at least one
\* character before that, and whitespace and a final result word after it
Is3(line) ==
    {p \in 3..Len(line) :
        /\ IsSpace(line[p - 1])
        /\ StartsAtI(line, Chars("is"), p)
        /\ After3(line, p, SpanEnd(line, p + 2, WHITESPACE))}

\* group 1 is lazy with at least one character
Match3(line) ==
    With(Is3(line), LAMBDA positions :
        IF positions = {} THEN NoMatch
        ELSE
        With(Min(positions), LAMBDA p :
            << SubSeq(line, 1, Max2(1, SpanStart(line, p) - 1)),
               SubSeq(line, SpanEnd(line, p + 2, WHITESPACE), Len(line)) >>))

\* patterns[4] = ^(.+?)\s+(Failed|Passed)$
\* q: where a final word of six letters starts
Match4(line) ==
    With(Len(line) - 5, LAMBDA q :
        IF /\ q >= 3
           /\ IsSpace(line[q - 1])
           /\ \E w \in WORDS4 : StartsAtI(line, w, q)
        THEN << SubSeq(line, 1, Max2(1, SpanStart(line, q) - 1)),
                SubSeq(line, q, Len(line)) >>
        ELSE NoMatch)

(***************************************************************************)
(* The updates of test_data, one per branch of the cascade.                *)
(***************************************************************************)
\* line 246 with the result word compared without .lower()
Extract0_CaseSensitive(m) ==
    update(test_data_default,
           (K_TestName :> strip(m[1]))
           @@ (K_Result :> IF m[2] \in {Chars("passed"), Chars("success")}
                            THEN PASS ELSE FAIL)
           @@ (K_Actual :> strip(m[3])))

\* line 246
Extract0(m) ==
    update(test_data_default,
           (K_TestName :> strip(m[1]))
           @@ (K_Result :> IF lower(m[2]) \in {Chars("passed"), Chars("success")}
                            THEN PASS ELSE FAIL)
           @@ (K_Actual :> strip(m[3])))

\* result_of with the test for "failed" first
result_of_failed_first(result_str) ==
    IF contains(result_str, Chars("failed")) THEN FAIL
    ELSE IF contains(result_str, Chars("passed")) \/ contains(result_str, Chars("success"))
        THEN PASS
    ELSE INFO

\* line 249
result_of(result_str) ==
    IF contains(result_str, Chars("passed")) \/ contains(result_str, Chars("success"))
        THEN PASS
    ELSE IF contains(result_str, Chars("failed")) THEN FAIL
    ELSE INFO

\* lines 248-250
Extract1(m) ==
    update(test_data_default,
           (K_TestName :> strip(m[1])) @@ (K_Result :> result_of(lower(m[2])))
           @@ (K_Actual :> strip(m[2])))

\* line 252
Extract2(m) ==
    update(test_data_default,
           (K_TestName :> replace(strip(m[1]), "_", " "))
           @@ (K_Result :> strip(m[2])))

\* line 254
Extract3(m) ==
    update(test_data_default,
           (K_TestName :> strip(m[1]))
           @@ (K_Result :> IF lower(m[2]) \in {Chars("success"), Chars("passed")}
                            THEN PASS ELSE FAIL))

\* line 256
Extract4(m) ==
    update(test_data_default,
           (K_TestName :> strip(m[1]))
           @@ (K_Result :> IF lower(m[2]) = Chars("passed") THEN PASS ELSE FAIL))

(***************************************************************************)
(* The cascade of lines 244-258 on one stripped, non-empty line.  The      *)
(* fifth test calls re.match(patterns, line, re.I) with the whole list     *)
(* patterns as its first argument: re.match raises TypeError for a list,   *)
(* so a line that reaches this test raises, and neither the update of line *)
(* 256 nor the "continue" of line 258 is ever executed.                    *)
(***************************************************************************)
\* the if/elif chain on the matches of patterns[0..3]; a match is computed
\* only when the chain gets to it
cascade(m0, m1, m2, m3) ==
    IF m0 # NoMatch THEN [outcome |-> "record", test_data |-> Extract0(m0)]
    ELSE IF m1 # NoMatch THEN [outcome |-> "record", test_data |-> Extract1(m1)]
    ELSE IF m2 # NoMatch THEN [outcome |-> "record", test_data |-> Extract2(m2)]
    ELSE IF m3 # NoMatch THEN [outcome |-> "record", test_data |-> Extract3(m3)]
    ELSE [outcome |-> "TypeError", test_data |-> test_data_default]

\* the chain with the two-part arrow pattern tried before the three-part one
cascade_two_part_first(m0, m1, m2, m3) ==
    IF m1 # NoMatch THEN [outcome |-> "record", test_data |-> Extract1(m1)]
    ELSE IF m0 # NoMatch THEN [outcome |-> "record", test_data |-> Extract0(m0)]
    ELSE IF m2 # NoMatch THEN [outcome |-> "record", test_data |-> Extract2(m2)]
    ELSE IF m3 # NoMatch THEN [outcome |-> "record", test_data |-> Extract3(m3)]
    ELSE [outcome |-> "TypeError", test_data |-> test_data_default]

classify_line_two_part_first(line) ==
    cascade_two_part_first(Match0(line), Match1(line), Match2(line), Match3(line))

classify_line(line) ==
    cascade(Match0(line), Match1(line), Match2(line), Match3(line))

\* lines 260-263 without the break: the last keyword contained wins
RECURSIVE first_standard_no_break(_, _, _)
first_standard_no_break(name, k, default) ==
    IF k > Len(KEYWORD_TO_STANDARD_MAP) THEN default
    ELSE first_standard_no_break(name, k + 1,
             IF contains(name, KEYWORD_TO_STANDARD_MAP[k][1])
             THEN KEYWORD_TO_STANDARD_MAP[k][2] ELSE default)

\* lines 260-263: the first keyword of the map, from position k on, that is
\* contained in the lowercased name gives the standard
RECURSIVE first_standard(_, _, _)
first_standard(name, k, default) ==
    IF k > Len(KEYWORD_TO_STANDARD_MAP) THEN default
    ELSE IF contains(name, KEYWORD_TO_STANDARD_MAP[k][1])
         THEN KEYWORD_TO_STANDARD_MAP[k][2]
         ELSE first_standard(name, k + 1, default)

assign_standard(test_data) ==
    [test_data EXCEPT ![K_Standard] =
        first_standard(lower(test_data[K_TestName]), 1, test_data[K_Standard])]

\* extracted_tests.insert(0, test_data)
append_test_front(extracted_tests, test_data, i) ==
    <<[test |-> test_data, line |-> i]>> \o extracted_tests

\* extracted_tests.append(test_data); each entry also remembers the number
\* of the line it was extracted from
append_test(extracted_tests, test_data, i) ==
    Append(extracted_tests, [test |-> test_data, line |-> i])

(***************************************************************************)
(* intelligent_parser: the loop over the lines from line i on.  The        *)
(* outcome tells whether the call raised, at which line, and the list      *)
(* extracted_tests as it was when the call ended.                          *)
(***************************************************************************)
RECURSIVE parse_lines(_, _, _)
parse_lines(lines, i, extracted_tests) ==
    IF i > Len(lines)
        THEN [called |-> TRUE, raised |-> FALSE, at |-> 0,
              extracted_tests |-> extracted_tests]
    ELSE
    With(strip(lines[i]), LAMBDA line :
        IF line = << >> THEN parse_lines(lines, i + 1, extracted_tests)
        ELSE
        With(classify_line(line), LAMBDA c :
            IF c.outcome = "TypeError"
                THEN [called |-> TRUE, raised |-> TRUE, at |-> i,
                      extracted_tests |-> extracted_tests]
            ELSE parse_lines(lines, i + 1,
                     append_test(extracted_tests, assign_standard(c.test_data), i))))

intelligent_parser(text) == parse_lines(split(text), 1, << >>)

\* the list of dicts an outcome returns
tests_of(outcome) ==
    [n \in 1..Len(outcome.extracted_tests) |-> outcome.extracted_tests[n].test]

NotCalled == [called |-> FALSE, raised |-> FALSE, at |-> 0, extracted_tests |-> << >>]

(***************************************************************************)
(* parse_report.                                                           *)
(***************************************************************************)
\* rename_map of line 275
rename_map ==
    << <<Chars("test"), K_TestName>>,
       <<Chars("standard"), K_Standard>>,
       <<Chars("expected"), Chars("Expected")>>,
       <<Chars("actual"), K_Actual>>,
       <<Chars("result"), K_Result>>,
       <<Chars("description"), Chars("Description")>>,
       <<Chars("part"), K_TestName>>,
       <<Chars("manufacturer pn"), K_Actual>> >>

\* df.rename: the new name of column n
renamed(n) ==
    IF \E k \in DOMAIN rename_map : rename_map[k][1] = n
    THEN rename_map[CHOOSE k \in DOMAIN rename_map : rename_map[k][1] = n][2]
    ELSE n

\* lines 274 and 276: the name of a column after strip, lower and rename
column_name(c) == renamed(lower(strip(c)))

\* the dicts of the rows under the column names
records_of(names, rows) ==
    [r \in DOMAIN rows |->
        [key \in Range(names) |->
            rows[r][CHOOSE c \in DOMAIN names : names[c] = key]]]

\* df.to_dict('records') for a frame whose renamed columns are distinct
to_dict_records(columns, rows) ==
    records_of([c \in DOMAIN columns |-> column_name(columns[c])], rows)

None == [ext |-> "none"]

\* report_of with the records extracted so far returned at line 284
report_of_partial(call) ==
    IF call.raised
        THEN [data |-> tests_of(call), error |-> TRUE, call |-> call]
        ELSE [data |-> tests_of(call), error |-> FALSE, call |-> call]

\* lines 281-284: the list of the call is returned, or the exception of the
\* call is reported and the empty list returned
report_of(call) ==
    IF call.raised
        THEN [data |-> << >>, error |-> TRUE, call |-> call]
        ELSE [data |-> tests_of(call), error |-> FALSE, call |-> call]

\* line 279: the texts of the pages from page i on that have text, each
\* followed by a newline (a page without text has the empty text)
RECURSIVE join_pages(_, _)
join_pages(pages, i) ==
    IF i > Len(pages) THEN << >>
    ELSE IF pages[i] = << >> THEN join_pages(pages, i + 1)
    ELSE pages[i] \o <<"\n">> \o join_pages(pages, i + 1)

\* lines 282-284 for an exception raised before intelligent_parser is called
extraction_error == [data |-> << >>, error |-> TRUE, call |-> NotCalled]

\* the value parse_report returns (data), whether it reported an error
\* with st.error (error), and the outcome of its call of intelligent_parser
parse_report(uploaded_file) ==
    IF uploaded_file = None
        THEN [data |-> << >>, error |-> FALSE, call |-> NotCalled]
    ELSE IF uploaded_file.ext \in {".csv", ".xlsx"}
        THEN [data |-> to_dict_records(uploaded_file.columns, uploaded_file.rows),
              error |-> FALSE, call |-> NotCalled]
    ELSE IF uploaded_file.ext = ".pdf"
        THEN IF uploaded_file.damaged
                 THEN extraction_error
                 ELSE report_of(intelligent_parser(join_pages(uploaded_file.pages, 1)))
    ELSE report_of(intelligent_parser(uploaded_file.content))

(***************************************************************************)
(* The inputs: the files a user uploads.                                   *)
(***************************************************************************)
Parts ==
    { Chars("X"), Chars("gps"), Chars("can"), Chars(" "), Chars("-->"),
      Chars(" --> Passed --> "), Chars("failed"), Chars("Success"),
      Chars(" is "), Chars(":"), Chars("7: A_B: "), Chars("\"PASS\"") }

RECURSIVE Concats(_)
Concats(n) ==
    IF n = 0 THEN {<< >>}
    ELSE LET S == Concats(n - 1) IN S \cup {s \o p : s \in S, p \in Parts}

SingleLineTexts == Concats(MaxParts)

ShortLines ==
    { << >>, Chars("  "), Chars("noise"),
      Chars("Over-voltage Test --> Passed --> 58.2V"),
      Chars("A --> Failed --> B --> Passed --> C"),
      Chars(" gps-->failed"),
      Chars("7: CAN_BUS: \"PASS\""),
      Chars("7: A_B: \"SKIP\""),
      Chars("7: A_B:  \"PASSFAIL\""),
      Chars("12: WATCHDOG_RESET: \"PASS\""),
      Chars("X is failed"),
      Chars("GPS Lock Acquisition Failed") }

\* the texts of exactly n lines of ShortLines
RECURSIVE JoinLines(_)
JoinLines(n) ==
    IF n = 1 THEN ShortLines
    ELSE {t \o <<"\n">> \o l : t \in JoinLines(n - 1), l \in ShortLines}

MultiLineTexts == UNION {JoinLines(n) : n \in 1..MaxLines}

TextFiles ==
    {[ext |-> ".txt", content |-> t] : t \in SingleLineTexts \cup MultiLineTexts}

Headers ==
    { <<Chars("Test"), Chars("Result")>>,
      <<Chars(" TEST "), Chars("result"), Chars("Standard")>>,
      <<Chars("Part"), Chars("Status")>> }

NameCells == {Chars("gps check"), Chars("X")}

ResultCells == {Chars("Pass"), Chars("FAILED"), Chars("pass/fail"), Chars("n/a")}

StandardCells == {Chars("ISO 1")}

RowsFor(h) ==
    IF Len(h) = 2 THEN {<<a, b>> : a \in NameCells, b \in ResultCells}
    ELSE {<<a, b, c>> : a \in NameCells, b \in ResultCells, c \in StandardCells}

RECURSIVE RowSeqs(_, _)
RowSeqs(h, n) ==
    IF n = 0 THEN {<< >>}
    ELSE LET S == RowSeqs(h, n - 1)
         IN  S \cup {Append(s, r) : s \in {t \in S : Len(t) = n - 1}, r \in RowsFor(h)}

TableFiles ==
    {[ext |-> ".csv", columns |-> h, rows |-> rs] :
        h \in Headers, rs \in UNION {RowSeqs(g, MaxRows) : g \in Headers}}

\* the texts pdfplumber extracts from a page; the empty text for a page
\* without text
PageTexts == {<< >>, Chars("7: CAN_BUS: \"PASS\""), Chars("noise")}

RECURSIVE PageSeqs(_)
PageSeqs(n) ==
    IF n = 0 THEN {<< >>}
    ELSE LET S == PageSeqs(n - 1)
         IN  S \cup {Append(s, t) : s \in {u \in S : Len(u) = n - 1}, t \in PageTexts}

\* PDF files: the readable ones with their pages, and one that pdfplumber
\* cannot open
PdfFiles ==
    {[ext |-> ".pdf", damaged |-> FALSE, pages |-> ps] : ps \in PageSeqs(MaxPages)}
        \cup {[ext |-> ".pdf", damaged |-> TRUE, pages |-> << >>]}

Files ==
    TextFiles \cup PdfFiles
        \cup {f \in TableFiles : \A r \in Range(f.rows) : Len(r) = Len(f.columns)}

\* the few reports of the sessions that visit all the pages
AppFiles ==
    {[ext |-> ".txt", content |-> t] :
        t \in {<< >>, Chars("noise"), Chars("Over-voltage Test --> Passed --> 58.2V")}}
        \cup {f \in PdfFiles : Len(f.pages) = 0}
        \cup {[ext |-> ".csv", columns |-> <<Chars("Test"), Chars("Result")>>,
               rows |-> << <<Chars("X"), Chars("Pass")>> >>]}

(***************************************************************************)
(* The session state and the "Test Report Verification" page, lines        *)
(* 299-321.                                                                *)
(***************************************************************************)
VARIABLES
    option,            \* the page chosen in the sidebar
    uploaded_file,     \* the file in the uploader, None when there is none
    parser_call,       \* the outcome of the call of intelligent_parser
    parse_error,       \* parse_report reported an exception with st.error
    parsed_data,       \* the list parse_report returned
    passed,            \* the three lists the page shows
    failed,
    others,
    notice,            \* "found": the summary; "no_data": the warning
    reports_verified,        \* st.session_state.reports_verified
    requirements_generated,  \* st.session_state.requirements_generated
    found_component,         \* st.session_state.found_component
    component_db             \* the rows of st.session_state.component_db

vars == <<option, uploaded_file, parser_call, parse_error, parsed_data, passed,
          failed, others, notice, reports_verified, requirements_generated,
          found_component, component_db>>

\* the pages of the sidebar, line 296
VERIFICATION == "Test Report Verification"
GENERATION == "Test Requirement Generation"
COMPONENTS == "Component Information"
DASHBOARD == "Dashboard & Analytics"

Options == <<VERIFICATION, GENERATION, COMPONENTS, DASHBOARD>>

\* "PASS" in str(t.get("Result", "")).upper()
is_passed(t) == contains(upper(get(t, K_Result, << >>)), PASS)

\* "FAIL" in str(t.get("Result", "")).upper()
is_failed(t) == contains(upper(get(t, K_Result, << >>)), FAIL)

is_other(t) == ~(is_passed(t) \/ is_failed(t))

\* the first run of the script: the first page of the sidebar, no file in
\* the uploader, and state_defaults of line 39 in the session state
Init ==
    /\ option = Options[1]
    /\ requirements_generated = 0
    /\ found_component = << >>
    /\ component_db = << >>
    /\ uploaded_file = None
    /\ parser_call = NotCalled
    /\ parse_error = FALSE
    /\ parsed_data = << >>
    /\ passed = << >>
    /\ failed = << >>
    /\ others = << >>
    /\ notice = "none"
    /\ reports_verified = 0

\* ShowReport with line 306 before the test of line 305
ShowReport_counts_every_file(f, r) ==
    /\ uploaded_file' = f
    /\ parser_call' = r.call
    /\ parse_error' = r.error
    /\ parsed_data' = r.data
    /\ IF f = None
          THEN /\ passed' = << >> /\ failed' = << >> /\ others' = << >>
               /\ notice' = "none"
               /\ UNCHANGED reports_verified
       ELSE IF r.data # << >>
          THEN /\ reports_verified' = reports_verified + 1
               /\ passed' = SelectSeq(r.data, is_passed)
               /\ failed' = SelectSeq(r.data, is_failed)
               /\ others' = SelectSeq(r.data, is_other)
               /\ notice' = "found"
       ELSE /\ passed' = << >> /\ failed' = << >> /\ others' = << >>
            /\ notice' = "no_data"
            /\ reports_verified' = reports_verified + 1

\* lines 303-321 with the value r of parse_report(f)
ShowReport(f, r) ==
    /\ uploaded_file' = f
    /\ parser_call' = r.call
    /\ parse_error' = r.error
    /\ parsed_data' = r.data
    /\ IF f = None
          THEN /\ passed' = << >> /\ failed' = << >> /\ others' = << >>
               /\ notice' = "none"
               /\ UNCHANGED reports_verified
       ELSE IF r.data # << >>
          THEN /\ reports_verified' = reports_verified + 1
               /\ passed' = SelectSeq(r.data, is_passed)
               /\ failed' = SelectSeq(r.data, is_failed)
               /\ others' = SelectSeq(r.data, is_other)
               /\ notice' = "found"
       ELSE /\ passed' = << >> /\ failed' = << >> /\ others' = << >>
            /\ notice' = "no_data"
            /\ UNCHANGED reports_verified

\* one run of the page with file f in the uploader
RunPage(f) ==
    /\ option = VERIFICATION
    /\ ShowReport(f, parse_report(f))
    /\ UNCHANGED <<option, requirements_generated, found_component, component_db>>

\* the user puts a file in the empty uploader, which runs the page
Upload ==
    /\ uploaded_file = None
    /\ reports_verified < MaxReports
    /\ \E f \in Files : RunPage(f)

\* any other interaction on the page runs it again with the same file
Rerun ==
    /\ uploaded_file # None
    /\ reports_verified < MaxReports
    /\ RunPage(uploaded_file)

\* the user removes the file, which runs the page without a file
RemoveFile ==
    /\ uploaded_file # None
    /\ RunPage(None)

\* the sessions that stay on the "Test Report Verification" page
Next == Upload \/ Rerun \/ RemoveFile

Spec == Init /\ [][Next]_vars

(***************************************************************************)
(* The other pages, lines 324-381.                                         *)
(***************************************************************************)
\* the user chooses another page: the script runs that page; the uploader
\* of the verification page is new or not there, so it holds no file
Navigate ==
    \E o \in Range(Options) \ {option} :
        /\ option' = o
        /\ ShowReport(None, parse_report(None))
        /\ UNCHANGED <<requirements_generated, found_component, component_db>>

\* line 329: [l.strip() for l in text.split("\n") if l.strip()]
stripped_lines(lines) ==
    SelectSeq([i \in DOMAIN lines |-> strip(lines[i])], LAMBDA l : l # << >>)

\* lines 330-331 (the cards of lines 332-337 are output only)
count_cases(cases) ==
    /\ requirements_generated + Len(cases) <= MaxRequirements
    /\ requirements_generated' =
          IF cases # << >> THEN requirements_generated + Len(cases)
                           ELSE requirements_generated

\* what the user leaves in the text area; the first is its default
TestCaseTexts ==
    {Chars("ip rating\nshort circuit test"), << >>, Chars(" \n"),
     Chars("vibration\n")}

\* the button "Generate Requirements", lines 328-337
GenerateRequirements ==
    /\ option = GENERATION
    /\ \E text \in TestCaseTexts : count_cases(stripped_lines(split(text)))
    /\ UNCHANGED <<option, uploaded_file, parser_call, parse_error, parsed_data,
                   passed, failed, others, notice, reports_verified,
                   found_component, component_db>>

\* line 342 for the entries that PartQueries select: three of the entries of
\* COMPONENT_KNOWLEDGE_BASE and CLUSTER_COMPONENT_KNOWLEDGE_BASE, in the
\* order of the merged dict
COMBINED_DB ==
    << <<"tja1051t", [subsystem |-> "VCU", part_name |-> "CAN Transceiver",
                      manufacturer |-> "NXP", certifications |-> "AEC-Q100"]>>,
       <<"irfz44n", [subsystem |-> "General", part_name |-> "MOSFET",
                     manufacturer |-> "Infineon"]>>,
       <<"veml6031x00", [subsystem |-> "ALS Board",
                         part_name |-> "Ambient Light Sensor",
                         manufacturer |-> "Vishay"]>> >>

\* line 345: next((k for k in COMBINED_DB if k in part_q), None), from
\* position k on; 0 for None
RECURSIVE find_key(_, _)
find_key(part_q, k) ==
    IF k > Len(COMBINED_DB) THEN 0
    ELSE IF contains(part_q, Chars(COMBINED_DB[k][1])) THEN k
    ELSE find_key(part_q, k + 1)

\* lines 346-350 with the position k of the key
set_found_component(k) ==
    found_component' =
        IF k # 0 THEN [part_number |-> COMBINED_DB[k][1]] @@ COMBINED_DB[k][2]
                 ELSE << >>

\* what the user types in "Quick Lookup"
PartQueries ==
    {<< >>, Chars(" TJA1051T "), Chars("irfz44n veml6031x00"),
     Chars("veml6031x00"), Chars("bc547")}

\* the button "Find Component", lines 343-355
FindComponent ==
    /\ option = COMPONENTS
    /\ \E q \in PartQueries : set_found_component(find_key(strip(lower(q)), 1))
    /\ UNCHANGED <<option, uploaded_file, parser_call, parse_error, parsed_data,
                   passed, failed, others, notice, reports_verified,
                   requirements_generated, component_db>>

\* line 367: the row of the form for part number pn, the other fields as
\* the form fills them from d (lines 361-363)
new_row(pn, d) ==
    ("Part Number" :> pn)
        @@ ("Manufacturer" :> get(d, "manufacturer", ""))
        @@ ("Function" :> get(d, "part_name", get(d, "function", "")))
        @@ ("Notes" :> get(d, "subsystem", get(d, "certifications", "")))

\* add_component without the test of line 366
add_component_any(pn, d) ==
    /\ component_db' = Append(component_db, new_row(pn, d))
    /\ found_component' = << >>

\* lines 366-370 with the fields of the submitted form
add_component(pn, d) ==
    IF pn # ""
        THEN /\ component_db' = Append(component_db, new_row(pn, d))
             /\ found_component' = << >>
        ELSE UNCHANGED <<component_db, found_component>>

\* what the user leaves in "Part Number": the value the form proposes
\* (line 360), nothing, or a part number of their own
PartNumbers(d) == {get(d, "part_number", ""), "", "bc547"}

\* the button "Add Component" of the form, lines 359-370
AddComponent ==
    /\ option = COMPONENTS
    /\ Len(component_db) < MaxComponents
    /\ \E pn \in PartNumbers(found_component) : add_component(pn, found_component)
    /\ UNCHANGED <<option, uploaded_file, parser_call, parse_error, parsed_data,
                   passed, failed, others, notice, reports_verified,
                   requirements_generated>>

\* Upload with one of the few reports
AppUpload ==
    /\ uploaded_file = None
    /\ reports_verified < MaxReports
    /\ \E f \in AppFiles : RunPage(f)

\* the sessions that visit all the pages
AppNext ==
    \/ AppUpload \/ Rerun \/ RemoveFile \/ Navigate
    \/ GenerateRequirements \/ FindComponent \/ AddComponent

App == Init /\ [][AppNext]_vars

(***************************************************************************)
(* Notions the properties below are stated with.                           *)
(***************************************************************************)
UNKNOWN == Chars("UNKNOWN")

TextUploaded == uploaded_file # None /\ uploaded_file.ext = ".txt"

TableUploaded == uploaded_file # None /\ uploaded_file.ext = ".csv"

\* the lines of the uploaded text
TextLines == split(uploaded_file.content)

\* the uploaded text is a single line
SingleLine == TextUploaded /\ "\n" \notin Range(uploaded_file.content)

\* the single line of the uploaded text, trimmed
TheLine == strip(uploaded_file.content)

\* line i of the uploaded text was given to the cascade
Processed(i) ==
    /\ strip(TextLines[i]) # << >>
    /\ (parser_call.raised => i <= parser_call.at)

\* the records of the call of intelligent_parser, with their line numbers
Entries == Range(parser_call.extracted_tests)

\* the positions in the map of the keywords the lowercased name contains
KeywordsIn(name) ==
    {k \in DOMAIN KEYWORD_TO_STANDARD_MAP :
        contains(lower(name), KEYWORD_TO_STANDARD_MAP[k][1])}

\* the standard of the keyword of name that comes first in the map
StandardOf(name) ==
    IF KeywordsIn(name) = {} THEN NA
    ELSE KEYWORD_TO_STANDARD_MAP[Min(KeywordsIn(name))][2]

\* the groups of pattern k on line, and the record its branch makes of them
MatchOf(k, line) ==
    CASE k = 0 -> Match0(line) [] k = 1 -> Match1(line) [] k = 2 -> Match2(line)
      [] k = 3 -> Match3(line) [] k = 4 -> Match4(line)

ExtractOf(k, m) ==
    CASE k = 0 -> Extract0(m) [] k = 1 -> Extract1(m) [] k = 2 -> Extract2(m)
      [] k = 3 -> Extract3(m) [] k = 4 -> Extract4(m)

\* the patterns that match line
Matching(line) == {k \in 0..4 : MatchOf(k, line) # NoMatch}

(***************************************************************************)
(* C1.  intelligent_parser completes without raising on every text: a      *)
(* non-empty line that matches no pattern is skipped, so the call returns  *)
(* one record for each line that matches a pattern (none when no line      *)
(* does).  Refuted: a line that matches none of patterns[0..3] reaches     *)
(* re.match(patterns, ...), which raises TypeError.                        *)
(***************************************************************************)
C1_ParserNeverRaises ==
    TextUploaded =>
        /\ parser_call.called
        /\ ~parser_call.raised
        /\ Len(parsed_data) =
             Cardinality({i \in DOMAIN TextLines :
                            /\ strip(TextLines[i]) # << >>
                            /\ Matching(strip(TextLines[i])) # {}})

(***************************************************************************)
(* C2.  A line "A Failed" (A without colon, whitespace, then the final     *)
(* word Failed in any case) that matches none of patterns[0..3] yields a   *)
(* record with Result FAIL and TestName A.  Refuted: such a line raises.   *)
(***************************************************************************)
\* line is "A Failed" with A free of colons
IsTrailingFailed(line) ==
    /\ Len(line) >= 8
    /\ lower(SubSeq(line, Len(line) - 5, Len(line))) = Chars("failed")
    /\ IsSpace(line[Len(line) - 6])
    /\ ":" \notin Range(SubSeq(line, 1, Len(line) - 6))

C2_TrailingFailedYieldsFail ==
    TextUploaded =>
        \A i \in DOMAIN TextLines :
            LET line == strip(TextLines[i])
            IN  (/\ line # << >>
                 /\ IsTrailingFailed(line)
                 /\ Matching(line) \cap {0, 1, 2, 3} = {})
                => \E n \in DOMAIN parsed_data :
                      /\ parser_call.extracted_tests[n].line = i
                      /\ parsed_data[n][K_Result] = FAIL
                      /\ parsed_data[n][K_TestName] =
                            strip(SubSeq(line, 1, Len(line) - 6))

(***************************************************************************)
(* C3.  A single-line input "A --> Passed --> B" yields exactly one record *)
(* with Result PASS, TestName A and Actual B (both trimmed), and Standard  *)
(* "N/A" when A contains no keyword.                                       *)
(***************************************************************************)
\* line reads A --> Passed --> B with the first arrow at position i
\* (whitespace around the arrows optional, B not empty)
IsThreePartAt(line, i) ==
    /\ StartsAt(line, ARROW, i)
    /\ LET k == SpanEnd(line, i + 3, WHITESPACE)
       IN  /\ StartsAtI(line, Chars("passed"), k)
           /\ LET m == SpanEnd(line, k + 6, WHITESPACE)
              IN  StartsAt(line, ARROW, m) /\ m + 3 <= Len(line)

\* the B of that reading
ValueAt(line, i) ==
    LET k == SpanEnd(line, i + 3, WHITESPACE)
        m == SpanEnd(line, k + 6, WHITESPACE)
    IN  SubSeq(line, m + 3, Len(line))

\* the record the claim promises for the reading at i
IsThreePartRecord(line, i) ==
    /\ Len(parsed_data) = 1
    /\ parsed_data[1][K_Result] = PASS
    /\ parsed_data[1][K_TestName] = strip(SubSeq(line, 1, i - 1))
    /\ parsed_data[1][K_Actual] = strip(ValueAt(line, i))
    /\ (KeywordsIn(strip(SubSeq(line, 1, i - 1))) = {}
          => parsed_data[1][K_Standard] = NA)

\* an arrow at j < i is followed by a result word and a further arrow
EarlierThreePart(line, i) ==
    \E j \in 1..(i - 1) :
        /\ StartsAt(line, ARROW, j)
        /\ LET k == SpanEnd(line, j + 3, WHITESPACE)
           IN  \E w \in {Chars("passed"), Chars("failed"), Chars("success")} :
                  /\ StartsAtI(line, w, k)
                  /\ StartsAt(line, ARROW, SpanEnd(line, k + Len(w), WHITESPACE))

\* the claim as stated, for every way of reading the line as A --> Passed --> B
C3_ThreePartAnyName ==
    SingleLine =>
        \A i \in 1..Len(TheLine) :
            IsThreePartAt(TheLine, i) => IsThreePartRecord(TheLine, i)

\* C3 as amended: the same, provided no arrow inside A is followed by
\* Passed, Failed or Success and then by another arrow of the line
C3_ThreePart ==
    SingleLine =>
        \A i \in 1..Len(TheLine) :
            (IsThreePartAt(TheLine, i) /\ ~EarlierThreePart(TheLine, i))
                => IsThreePartRecord(TheLine, i)

C3_Witness ==
    /\ SingleLine
    /\ notice = "found"
    /\ \E i \in 1..Len(TheLine) :
          /\ IsThreePartAt(TheLine, i)
          /\ ~EarlierThreePart(TheLine, i)
          /\ strip(SubSeq(TheLine, 1, i - 1)) # << >>
          /\ KeywordsIn(SubSeq(TheLine, 1, i - 1)) = {}

(***************************************************************************)
(* C4.  The three groups passed, failed and others partition the parsed    *)
(* records: every record is in exactly one of them.  Refuted: a Result     *)
(* that contains both PASS and FAIL is listed as passed and as failed.     *)
(***************************************************************************)
C4_Partition ==
    notice = "found" =>
        /\ Len(passed) + Len(failed) + Len(others) = Len(parsed_data)
        /\ \A t \in Range(parsed_data) :
              Cardinality({g \in {1, 2, 3} :
                  t \in Range(CASE g = 1 -> passed [] g = 2 -> failed
                                [] g = 3 -> others)}) = 1

(***************************************************************************)
(* C5.  Every record of the text parser has a Result among PASS, FAIL,     *)
(* INFO and UNKNOWN.  Refuted: the diagnostic-log branch stores the quoted *)
(* token as it is.                                                         *)
(***************************************************************************)
C5_ResultIsEnum ==
    \A e \in Entries : e.test[K_Result] \in {PASS, FAIL, INFO, UNKNOWN}

(***************************************************************************)
(* C6.  Every record of the text parser has a non-empty TestName.          *)
(* Refuted: a line that starts with the arrow gives the empty name.        *)
(***************************************************************************)
C6_NameNonEmpty ==
    \A e \in Entries : e.test[K_TestName] # << >>

(***************************************************************************)
(* C7.  The Standard of every record of the text parser is the standard of *)
(* the keyword of the map, in the map's order, that is first among those   *)
(* the lowercased TestName contains, and "N/A" when it contains none.      *)
(***************************************************************************)
C7_FirstKeywordWins ==
    \A e \in Entries : e.test[K_Standard] = StandardOf(e.test[K_TestName])

\* a name with two keywords where the one later in the map comes first
C7_Witness ==
    \E e \in Entries :
        /\ StartsAt(lower(e.test[K_TestName]), Chars("can"), 1)
        /\ contains(lower(e.test[K_TestName]), Chars("gps"))
        /\ e.test[K_Standard] = Chars("NMEA 0183")

(***************************************************************************)
(* C8.  A record of a tabular file whose name contains a keyword has that  *)
(* keyword's standard.  Refuted: parse_report returns the rows of a table  *)
(* as they are.                                                            *)
(***************************************************************************)
C8_TabularGetsStandard ==
    TableUploaded =>
        \A t \in Range(parsed_data) :
            (K_TestName \in DOMAIN t /\ KeywordsIn(t[K_TestName]) # {})
                => get(t, K_Standard, NA) = StandardOf(t[K_TestName])

(***************************************************************************)
(* C9.  For every line given to the cascade that matches more than one of  *)
(* the five patterns, the record of that line is the one the first of the  *)
(* matching patterns extracts.                                             *)
(***************************************************************************)
C9_PriorityOrder ==
    TextUploaded =>
        \A i \in DOMAIN TextLines :
            LET line == strip(TextLines[i])
            IN  (Processed(i) /\ Cardinality(Matching(line)) >= 2)
                => LET k == Min(Matching(line))
                   IN  \E e \in Entries :
                          /\ e.line = i
                          /\ e.test = assign_standard(ExtractOf(k, MatchOf(k, line)))

\* a line that matches "NAME is failed" and the trailing result word
C9_Witness ==
    /\ TextUploaded
    /\ \E i \in DOMAIN TextLines :
          /\ Processed(i)
          /\ Matching(strip(TextLines[i])) = {3, 4}
          /\ \E e \in Entries : e.line = i /\ e.test[K_Result] = FAIL

(***************************************************************************)
(* C10.  The records of a text are in the order of their lines, at most    *)
(* one per line, and each is the record of its line.                       *)
(***************************************************************************)
C10_OrderOfAppearance ==
    TextUploaded =>
        /\ \A n \in DOMAIN parser_call.extracted_tests :
              LET e == parser_call.extracted_tests[n]
              IN  /\ e.line \in DOMAIN TextLines
                  /\ e.test = assign_standard(
                                 classify_line(strip(TextLines[e.line])).test_data)
                  /\ n > 1 => parser_call.extracted_tests[n - 1].line < e.line
        /\ ~parser_call.raised => parsed_data = tests_of(parser_call)

\* two different records from two lines
C10_Witness ==
    /\ TextUploaded
    /\ Len(parsed_data) = 2
    /\ parsed_data[1] # parsed_data[2]
    /\ parser_call.extracted_tests[1].line = 1

(***************************************************************************)
(* C11.  The session state (reports_verified, requirements_generated and   *)
(* component_db) changes only in a step that completes a parse of a        *)
(* report; the buttons "Generate Requirements", "Find Component" and "Add  *)
(* Component" and the view of the dashboard change none of it.             *)
(* As stated this is refuted by "Generate Requirements" and by "Add        *)
(* Component".  What holds: each of the three has one writer.              *)
(* reports_verified grows by one in a run of the verification page whose   *)
(* parse returns records; requirements_generated grows in a step of the    *)
(* generation page; component_db gets one row with a part number in a      *)
(* step of the component page, which empties found_component; each of      *)
(* these steps leaves the other two alone; a change of page (the dashboard *)
(* included) and a lookup that finds a component change none of the three. *)
(***************************************************************************)
session_state == <<reports_verified, requirements_generated, component_db>>

\* the claim as stated
C11_OnlyParseChangesSession ==
    [][session_state' # session_state
          => (uploaded_file' # None /\ parsed_data' # << >>)]_vars

C11_SessionFrame ==
    [][/\ reports_verified' # reports_verified
            => /\ option = VERIFICATION /\ option' = VERIFICATION
               /\ uploaded_file' # None /\ parsed_data' # << >>
               /\ reports_verified' = reports_verified + 1
               /\ UNCHANGED <<requirements_generated, component_db>>
       /\ requirements_generated' # requirements_generated
            => /\ option = GENERATION /\ option' = GENERATION
               /\ requirements_generated' > requirements_generated
               /\ UNCHANGED <<reports_verified, component_db>>
       /\ component_db' # component_db
            => /\ option = COMPONENTS /\ option' = COMPONENTS
               /\ Len(component_db') = Len(component_db) + 1
               /\ SubSeq(component_db', 1, Len(component_db)) = component_db
               /\ component_db'[Len(component_db')]["Part Number"] # ""
               /\ found_component' = << >>
               /\ UNCHANGED <<reports_verified, requirements_generated>>
       /\ option' # option => UNCHANGED session_state
       /\ (found_component' # found_component /\ found_component' # << >>)
            => UNCHANGED session_state]_vars

\* a session in which each of the three has been written
C11_Witness ==
    /\ reports_verified > 0
    /\ requirements_generated > 0
    /\ component_db # << >>

(***************************************************************************)
(* C12.  When the extraction of the text of an uploaded file raises, or    *)
(* yields no content, parse_report returns the empty list, the page shows  *)
(* the warning that no data was extracted, and reports_verified keeps its  *)
(* value.                                                                  *)
(***************************************************************************)
\* pdfplumber raises on file f
ExtractionFails(f) == f.ext = ".pdf" /\ f.damaged

\* the text extracted from file f is empty
NoContent(f) ==
    \/ f.ext = ".txt" /\ f.content = << >>
    \/ f.ext = ".pdf" /\ ~f.damaged /\ join_pages(f.pages, 1) = << >>

C12_FailedExtractionIsNoData ==
    [][(/\ uploaded_file' # None
        /\ ExtractionFails(uploaded_file') \/ NoContent(uploaded_file'))
          => /\ parsed_data' = << >>
             /\ notice' = "no_data"
             /\ reports_verified' = reports_verified]_vars

\* the page after the upload of a PDF file that cannot be opened
C12_Witness ==
    /\ uploaded_file # None
    /\ ExtractionFails(uploaded_file)
    /\ parse_error
    /\ parsed_data = << >>
    /\ notice = "no_data"

(***************************************************************************)
(* C13.  The text 12: WATCHDOG_RESET: "PASS" yields exactly one record,    *)
(* with TestName "WATCHDOG RESET" (or "WATCHDOG_RESET"), Result PASS and   *)
(* Standard "System Watchdog Functionality Spec".  Refuted: the map has    *)
(* no keyword for the name, and the Standard of the record is "N/A".       *)
(***************************************************************************)
ScenarioC == Chars("12: WATCHDOG_RESET: \"PASS\"")

C13_WatchdogScenario ==
    (TextUploaded /\ uploaded_file.content = ScenarioC)
        => /\ Len(parsed_data) = 1
           /\ parsed_data[1][K_TestName]
                 \in {Chars("WATCHDOG RESET"), Chars("WATCHDOG_RESET")}
           /\ parsed_data[1][K_Result] = PASS
           /\ parsed_data[1][K_Standard] = Chars("System Watchdog Functionality Spec")

(***************************************************************************)
(* C14.  A line NAME --> VALUE given to the cascade that does not match    *)
(* the three-part pattern yields a record with TestName NAME and Actual    *)
(* VALUE (both trimmed) whose Result is decided on VALUE without regard to *)
(* case: PASS when it contains "passed" or "success", also when it         *)
(* contains "failed" too; otherwise FAIL when it contains "failed";        *)
(* otherwise INFO.  This holds when NAME is the text before the first -->  *)
(* of the line; read with a NAME that contains a -->, it does not.         *)
(***************************************************************************)
\* line reads NAME --> VALUE with the arrow at position j (VALUE not empty)
IsTwoPartAt(line, j) == StartsAt(line, ARROW, j) /\ j + 3 <= Len(line)

\* the result the claim gives for VALUE
ResultFor(value) ==
    IF \/ contains(lower(value), Chars("passed"))
       \/ contains(lower(value), Chars("success")) THEN PASS
    ELSE IF contains(lower(value), Chars("failed")) THEN FAIL
    ELSE INFO

\* line i has the record the claim promises for the reading at j
IsTwoPartRecord(i, line, j) ==
    \E e \in Entries :
        /\ e.line = i
        /\ e.test[K_TestName] = strip(SubSeq(line, 1, j - 1))
        /\ e.test[K_Actual] = strip(SubSeq(line, j + 3, Len(line)))
        /\ e.test[K_Result] = ResultFor(SubSeq(line, j + 3, Len(line)))

\* the arrow at j is the first of the line
IsFirstArrow(line, j) == \A k \in 1..(j - 1) : ~StartsAt(line, ARROW, k)

\* the claim as stated, for every way of reading the line as NAME --> VALUE
C14_TwoPartAnyName ==
    TextUploaded =>
        \A i \in DOMAIN TextLines :
            LET line == strip(TextLines[i])
            IN  (Processed(i) /\ Match0(line) = NoMatch)
                => \A j \in 1..Len(line) :
                      IsTwoPartAt(line, j) => IsTwoPartRecord(i, line, j)

C14_TwoPart ==
    TextUploaded =>
        \A i \in DOMAIN TextLines :
            LET line == strip(TextLines[i])
            IN  (Processed(i) /\ Match0(line) = NoMatch)
                => \A j \in 1..Len(line) :
                      (IsTwoPartAt(line, j) /\ IsFirstArrow(line, j))
                          => IsTwoPartRecord(i, line, j)

\* a two-part line whose VALUE contains "failed" and "success": PASS
C14_Witness ==
    /\ TextUploaded
    /\ \E i \in DOMAIN TextLines :
          LET line == strip(TextLines[i])
          IN  /\ Processed(i)
              /\ Match0(line) = NoMatch
              /\ \E j \in 1..Len(line) :
                    /\ IsTwoPartAt(line, j) /\ IsFirstArrow(line, j)
                    /\ contains(lower(SubSeq(line, j + 3, Len(line))), Chars("failed"))
                    /\ IsTwoPartRecord(i, line, j)
                    /\ \E e \in Entries : e.line = i /\ e.test[K_Result] = PASS

(***************************************************************************)
(* C15.  For every uploaded text (a text file or the text of a PDF file),  *)
(* parse_report returns the empty list or one record for each non-empty    *)
(* trimmed line, in the order of the lines; never the records of only      *)
(* some of the non-empty lines.  When a line makes the cascade raise, the  *)
(* records extracted before it are not returned.                           *)
(***************************************************************************)
\* parse_report gives the text of the uploaded file to intelligent_parser
ParsedAsText ==
    /\ uploaded_file # None
    /\ \/ uploaded_file.ext = ".txt"
       \/ uploaded_file.ext = ".pdf" /\ ~uploaded_file.damaged

\* that text
UploadedText ==
    IF uploaded_file.ext = ".pdf" THEN join_pages(uploaded_file.pages, 1)
    ELSE uploaded_file.content

\* the numbers of the lines of text that are not blank
NonBlank(text) == {i \in DOMAIN split(text) : strip(split(text)[i]) # << >>}

\* parsed_data has the record of each non-blank line, in their order
OneRecordPerLine(text) ==
    /\ Len(parsed_data) = Cardinality(NonBlank(text))
    /\ \A n \in DOMAIN parsed_data :
          LET i == parser_call.extracted_tests[n].line
          IN  /\ i \in NonBlank(text)
              /\ Cardinality({k \in NonBlank(text) : k <= i}) = n
              /\ parsed_data[n] =
                    assign_standard(classify_line(strip(split(text)[i])).test_data)

C15_AllOrNothing ==
    ParsedAsText =>
        /\ parsed_data = << >> \/ OneRecordPerLine(UploadedText)
        /\ parser_call.raised => parsed_data = << >>

\* the second line raised and the record of the first was dropped
C15_Witness ==
    /\ ParsedAsText
    /\ parser_call.raised
    /\ parser_call.extracted_tests # << >>
    /\ parsed_data = << >>

=============================================================================
